---- MODULE Spec2Model ----
(***************************************************************************)
(* Model of the resilient request layer of the dashboard client:           *)
(*   - the Request Gateway        (apiFetch and the api object),           *)
(*   - the Status Aggregator      (refreshAgentData in App.jsx),           *)
(*   - the Conversation Dispatcher (handleSend in App.jsx).                *)
(*   - the polling loop of the 3D mesh view (fetchStates).                 *)
(* Strings that the code inspects or concatenates (error messages) are     *)
(* sequences of text fragments, so that `includes` and template strings    *)
(* are computed, not assumed.  JSON bodies are records tagged by kind.     *)
(***************************************************************************)
EXTENDS Integers, Sequences, FiniteSets, Bags, TLC

\* ------------------------------------------------------------------ bounds
\* number of clicks on Refresh Status or Retry
MaxClicks == 1
\* number of form submissions with non-empty text
MaxSends == 2
\* number of gateway calls traced stage by stage
MaxGatewayCalls == 2
\* number of polling cycles of the 3D mesh view
MaxPolls == 2

\* ------------------------------------------------------- program constants
AGENT_IDS == <<"coordinator", "researcher", "coder">>

AgentIdSet == {AGENT_IDS[k] : k \in 1..Len(AGENT_IDS)}

VARIABLES
  messages,       \* App state: the conversation timeline
  agents,         \* App state: the snapshot map, keyed by agent id
  loading,        \* App state: a send is being processed
  loadingAgents,  \* App state: the agent panel shows its loading indicator
  backendOnline,  \* App state: the connectivity verdict
  input,          \* App state: the text box
  chatMode,       \* App state: "multi-agent" or "simple"
  rf,             \* the refreshAgentData invocations in flight
  send,           \* the handleSend invocation in flight, and what it did
  lastCycle,      \* what the refresh that completed last had gathered
  clicks,         \* number of manual refreshes requested so far
  gw,             \* one apiFetch call traced through its stages
  mesh            \* CircuitMesh3D: its agent list and its polling loop

vars == <<messages, agents, loading, loadingAgents, backendOnline, input,
          chatMode, rf, send, clicks, lastCycle, gw, mesh>>

appVars == <<messages, agents, loading, loadingAgents, backendOnline, input,
             chatMode, rf, send, clicks, lastCycle, mesh>>

\* the state of App and of the traced gateway call
panelVars == <<messages, agents, loading, loadingAgents, backendOnline, input,
               chatMode, rf, send, clicks, lastCycle, gw>>

\* ============================================================ JSON values
JsonNull == [kind |-> "null"]
Unparsable == [kind |-> "unparsable"]
JsonObject(o) == [kind |-> "object", obj |-> o]

\* property read on a parsed object: a missing field reads as undefined
Get(o, f) == IF f \in DOMAIN o THEN o[f] ELSE "undefined"

\* property read on an error body: fields hold text, a missing one is falsy
GetText(o, f) == IF f \in DOMAIN o THEN o[f] ELSE <<>>

\* a || b on text values
JsOr(a, b) == IF a # <<>> THEN a ELSE b

\* String.prototype.includes for the fragments the code looks for
Includes(msg, needle) == \E k \in 1..Len(msg) : msg[k] = needle

\* parseFloat on the budget strings of the model
ParseFloat(s) ==
  CASE s = "10.00" -> "10"
    [] s = "2.50" -> "2.5"
    [] OTHER -> "NaN"

\* ======================================================== Request Gateway
DefaultErrorMessage == <<"An unexpected error occurred">>
TimeoutMessage == <<"Request timed out. Backend is slow or unreachable.">>
UnreachableMessage == <<"Cannot connect to backend. Is the server running?">>
NotFoundMessage == <<"Resource not found (404)">>
RateLimitMessage == <<"Rate limit exceeded. Please wait a moment.">>
ServerErrorMessage == <<"Server error. Please try again later.">>
JsonSyntaxMessage == <<"Unexpected token in JSON">>

\* errorData.detail || errorData.message || errorMessage, inside try/catch
ExtractErrorMessage(body) ==
  IF body.kind = "object"
    THEN JsOr(GetText(body.obj, "detail"),
              JsOr(GetText(body.obj, "message"), DefaultErrorMessage))
    ELSE DefaultErrorMessage

\* the switch on response.status
StatusMessage(status, errorMessage) ==
  CASE status = 404 -> NotFoundMessage
    [] status = 429 -> RateLimitMessage
    [] status \in {500, 502, 503} -> ServerErrorMessage
    [] OTHER -> <<"Error: ">> \o errorMessage

ResponseOk(status) == status >= 200 /\ status <= 299

\* the catch block: classification of the thrown error into a message
ClassifyError(error) ==
  IF error.name = "AbortError"
    THEN TimeoutMessage
    ELSE IF Includes(error.message, "Failed to fetch")
            \/ Includes(error.message, "NetworkError")
           THEN UnreachableMessage
           ELSE error.message

SuccessEnvelope(data) == [success |-> TRUE, data |-> data]
FailureEnvelope(errorMsg) == [success |-> FALSE, error |-> errorMsg]

\* what is thrown inside the try block for a response that has arrived
ErrorOfResponse(status, body) ==
  IF ~ResponseOk(status)
    THEN [name |-> "Error",
          message |-> StatusMessage(status, ExtractErrorMessage(body))]
    ELSE [name |-> "SyntaxError", message |-> JsonSyntaxMessage]

\* variant that takes every 2xx response for a success
ApiFetchResultLenient(outcome) ==
  CASE outcome.kind = "timeout" -> FailureEnvelope(TimeoutMessage)
    [] outcome.kind = "network_error" ->
         FailureEnvelope(ClassifyError([name |-> "TypeError",
                                        message |-> outcome.message]))
    [] outcome.kind = "response" ->
         IF ResponseOk(outcome.status)
           THEN SuccessEnvelope(outcome.body)
           ELSE FailureEnvelope(
                  ClassifyError(ErrorOfResponse(outcome.status, outcome.body)))

\* the envelope apiFetch resolves to, given what the network did
ApiFetchResult(outcome) ==
  CASE outcome.kind = "timeout" ->
         FailureEnvelope(ClassifyError([name |-> "AbortError",
                                        message |-> <<"The user aborted a request.">>]))
    [] outcome.kind = "network_error" ->
         FailureEnvelope(ClassifyError([name |-> "TypeError",
                                        message |-> outcome.message]))
    [] outcome.kind = "response" ->
         IF ResponseOk(outcome.status) /\ outcome.body.kind # "unparsable"
           THEN SuccessEnvelope(outcome.body)
           ELSE FailureEnvelope(
                  ClassifyError(ErrorOfResponse(outcome.status, outcome.body)))

Response(status, body) == [kind |-> "response", status |-> status, body |-> body]
NetworkError(msg) == [kind |-> "network_error", message |-> msg]
TimedOut == [kind |-> "timeout"]

\* ====================================================== Status Aggregator
EmptyMap == [k \in {} |-> k]

Put(m, k, v) == [x \in DOMAIN m \cup {k} |-> IF x = k THEN v ELSE m[x]]

\* { ...prev, ...newAgentData }
Overlay(prev, new) ==
  [x \in DOMAIN prev \cup DOMAIN new |-> IF x \in DOMAIN new THEN new[x] ELSE prev[x]]

\* the object literal built for an agent whose two calls succeeded
Snapshot(id, statusData, costData) ==
  [name |-> id,
   circuitStatus |-> Get(statusData, "status"),
   budgetLimit |-> ParseFloat(Get(statusData, "budget_limit_usd")),
   cost |-> Get(costData, "total_cost_usd")]

\* reading a property of null raises a TypeError
ReadThrows(data) == data.kind = "null"

\* variant of the loop body that looks at the status envelope alone
ProcessPairStatusOnly(id, statusRes, costRes, newAgentData, successCount) ==
  IF statusRes.success /\ ~ReadThrows(statusRes.data)
    THEN [data |-> Put(newAgentData, id,
                       Snapshot(id, statusRes.data.obj,
                                IF costRes.success /\ ~ReadThrows(costRes.data)
                                  THEN costRes.data.obj ELSE EmptyMap)),
          count |-> successCount + 1]
    ELSE [data |-> newAgentData, count |-> successCount]

\* variant of the loop body that files the snapshot under the identifier
\* the backend reports
ProcessPairReportedId(id, statusRes, costRes, newAgentData, successCount) ==
  IF statusRes.success /\ costRes.success
       /\ ~ReadThrows(statusRes.data) /\ ~ReadThrows(costRes.data)
    THEN [data |-> Put(newAgentData,
                       IF "agent_id" \in DOMAIN statusRes.data.obj
                         THEN statusRes.data.obj.agent_id ELSE id,
                       Snapshot(id, statusRes.data.obj, costRes.data.obj)),
          count |-> successCount + 1]
    ELSE [data |-> newAgentData, count |-> successCount]

\* body of the for loop for one agent: the if, and the catch around it
ProcessPair(id, statusRes, costRes, newAgentData, successCount) ==
  IF statusRes.success /\ costRes.success
       /\ ~ReadThrows(statusRes.data) /\ ~ReadThrows(costRes.data)
    THEN [data |-> Put(newAgentData, id,
                       Snapshot(id, statusRes.data.obj, costRes.data.obj)),
          count |-> successCount + 1]
    ELSE [data |-> newAgentData, count |-> successCount]

\* an invocation of refreshAgentData suspended at its await: i is the
\* position of the for loop, awaited tells whether handleSend awaits it,
\* manual whether a click started it, and pairs records, for each agent
\* processed in this cycle, what its pair of envelopes was
StartedRefresh(awaited) ==
  [i |-> 1, newAgentData |-> EmptyMap, successCount |-> 0, pairs |-> EmptyMap,
   awaited |-> awaited, manual |-> FALSE]

InFlight == BagToSet(rf)

\* the agents whose pair of calls the invocation has issued so far: the for
\* loop awaits the pair of one agent before it issues the next
IssuedPairs(inst) == {AGENT_IDS[k] : k \in 1..inst.i}

\* the agents whose pair has settled
SettledPairs(inst) == {AGENT_IDS[k] : k \in 1..(inst.i - 1)}

\* variant of the loop that ends after any agent
LoopDoneEarly(inst) == TRUE

\* the pair that settles is the one of the last agent: the for loop ends
LoopDone(inst) == inst.i = Len(AGENT_IDS)

\* no refresh has completed yet
NoCycle == [pairs |-> EmptyMap, fresh |-> EmptyMap]

\* what Promise.all resolved with for one agent: no success envelope, one
\* of the two, two of which one carries null, or two that carry objects
PairClass(statusRes, costRes) ==
  IF statusRes.success /\ costRes.success
    THEN IF statusRes.data.kind = "object" /\ costRes.data.kind = "object"
           THEN "complete" ELSE "unreadable"
    ELSE IF statusRes.success \/ costRes.success THEN "partial" ELSE "none"

\* refreshAgentData up to its first await: the loading indicator is set
\* when the closure saw an empty map, and the pair of the first agent is
\* issued
LoadingAfterStart(agentsEmpty) == IF agentsEmpty THEN TRUE ELSE loadingAgents

\* the Refresh Status button and the Retry link of the offline banner
CanClickRefresh == ~loadingAgents
CanClickRetry == ~backendOnline

ManualRefresh ==
  /\ CanClickRefresh \/ CanClickRetry
  /\ clicks < MaxClicks
  /\ clicks' = clicks + 1
  /\ rf' = rf (+) SetToBag({[StartedRefresh(FALSE) EXCEPT !.manual = TRUE]})
  /\ loadingAgents' = LoadingAfterStart(DOMAIN agents = {})
  /\ UNCHANGED <<messages, agents, loading, backendOnline, input, chatMode,
                 send, lastCycle, gw, mesh>>

\* variant that publishes the gathered data in place of the map
ApplyAgentsReplace(successCount, newAgentData) ==
  IF successCount > 0 THEN newAgentData ELSE agents

\* variant in which the entries already in the map win
ApplyAgentsKeepFirst(successCount, newAgentData) ==
  IF successCount > 0 THEN Overlay(newAgentData, agents) ELSE agents

\* the end of refreshAgentData: the single write of map and verdict
ApplyAgents(successCount, newAgentData) ==
  IF successCount > 0 THEN Overlay(agents, newAgentData) ELSE agents

\* variant that asks every agent to have succeeded
ApplyVerdictAll(successCount) == successCount = Len(AGENT_IDS)

ApplyVerdict(successCount) == successCount > 0

\* variant of the handler whose exception path leaves the flag as it is
LoadingKeptOnException(outcome) == outcome = "exception"

\* the finally block of handleSend, run on every path out of the try:
\* setLoading(false)
LoadingAfterFinally(outcome) == FALSE

\* Promise.all of the pair of agent AGENT_IDS[i] resolves with the two
\* envelopes; the loop body runs, then either the next pair is issued or
\* the function runs to its end.  When handleSend awaits this invocation,
\* its finally block runs as the continuation.
RefreshPairSettled(inst, statusOutcome, costOutcome) ==
  /\ BagIn(inst, rf)
  /\ LET id == AGENT_IDS[inst.i]
         statusRes == ApiFetchResult(statusOutcome)
         costRes == ApiFetchResult(costOutcome)
         p == ProcessPair(id, statusRes, costRes,
                          inst.newAgentData, inst.successCount)
         pairs == Put(inst.pairs, id, PairClass(statusRes, costRes))
         rest == rf (-) SetToBag({inst})
     IN IF ~LoopDone(inst)
          THEN /\ rf' = rest (+) SetToBag({[i |-> inst.i + 1,
                                            newAgentData |-> p.data,
                                            successCount |-> p.count,
                                            pairs |-> pairs,
                                            awaited |-> inst.awaited,
                                            manual |-> inst.manual]})
               /\ UNCHANGED <<agents, backendOnline, loadingAgents, loading,
                              send, lastCycle>>
          ELSE /\ rf' = rest
               /\ lastCycle' = [pairs |-> pairs, fresh |-> p.data]
               /\ agents' = ApplyAgents(p.count, p.data)
               /\ backendOnline' = ApplyVerdict(p.count)
               /\ loadingAgents' = FALSE
               /\ IF inst.awaited
                    THEN /\ loading' = LoadingAfterFinally(send.outcome)
                         /\ send' = [send EXCEPT !.pc = "idle"]
                    ELSE UNCHANGED <<loading, send>>
  /\ UNCHANGED <<messages, input, chatMode, clicks, gw, mesh>>

\* what the backend can answer to the two calls of a pair; the body that
\* tells open also names an agent, one that is not configured
StatusBodies ==
  {JsonObject([status |-> "closed", budget_limit_usd |-> "10.00"]),
   JsonObject([status |-> "open", budget_limit_usd |-> "10.00",
               agent_id |-> "planner"]),
   JsonNull}

CostBodies == {JsonObject([total_cost_usd |-> "0.25"]), JsonNull}

StatusOutcomes ==
  {Response(200, b) : b \in StatusBodies}
    \cup {Response(200, Unparsable), NetworkError(<<"Failed to fetch">>)}

CostOutcomes ==
  {Response(200, b) : b \in CostBodies} \cup {Response(404, Unparsable)}

RefreshStep ==
  \E inst \in InFlight, so \in StatusOutcomes, co \in CostOutcomes :
    RefreshPairSettled(inst, so, co)

\* the answers considered for the refreshes that run beside a send
BasicStatusOutcomes ==
  {Response(200, JsonObject([status |-> "closed", budget_limit_usd |-> "10.00"])),
   NetworkError(<<"Failed to fetch">>)}

BasicCostOutcomes == {Response(200, JsonObject([total_cost_usd |-> "0.25"]))}

BasicRefreshStep ==
  \E inst \in InFlight, so \in BasicStatusOutcomes, co \in BasicCostOutcomes :
    RefreshPairSettled(inst, so, co)

\* the answers considered when refreshes overlap: the circuit call tells
\* closed or open, or the connection fails
OverlapStatusOutcomes ==
  {Response(200, JsonObject([status |-> "closed", budget_limit_usd |-> "10.00"])),
   Response(200, JsonObject([status |-> "open", budget_limit_usd |-> "10.00"])),
   NetworkError(<<"Failed to fetch">>)}

OverlapRefreshStep ==
  \E inst \in InFlight, so \in OverlapStatusOutcomes, co \in BasicCostOutcomes :
    RefreshPairSettled(inst, so, co)

\* ================================================ Conversation Dispatcher
\* texts the user can have in the box: empty, blank, padded
Texts == {<<>>, <<" ">>, <<" ", "a", " ">>}

RECURSIVE TrimStart(_)
TrimStart(s) ==
  IF s # <<>> /\ Head(s) = " " THEN TrimStart(Tail(s)) ELSE s

RECURSIVE TrimEnd(_)
TrimEnd(s) ==
  IF s # <<>> /\ s[Len(s)] = " " THEN TrimEnd(SubSeq(s, 1, Len(s) - 1)) ELSE s

\* variant of trim that returns its argument
TrimNothing(s) == s

\* String.prototype.trim
Trim(s) == TrimEnd(TrimStart(s))

\* variant of the update that puts the new entry in front
SpreadFront(prev, entry) == <<entry>> \o prev

\* the updater prev => [...prev, entry] of setMessages
Spread(prev, entry) == Append(prev, entry)

\* one such update after another
RECURSIVE SpreadAll(_, _)
SpreadAll(prev, entries) ==
  IF entries = <<>> THEN prev
                    ELSE SpreadAll(Spread(prev, Head(entries)), Tail(entries))

UserEntry(trimmed) == [role |-> "user", content |-> trimmed]

SimpleEntry(data) ==
  [role |-> "assistant",
   content |-> Get(data, "response"),
   cost |-> Get(data, "cost_usd"),
   model_used |-> Get(data, "model_used"),
   agent_id |-> Get(data, "agent_id")]

MultiAgentEntry(data) ==
  [role |-> "assistant",
   content |-> Get(data, "final_answer"),
   cost |-> Get(data, "total_cost"),
   agents_used |-> Get(data, "agents_used"),
   routing_decision |-> Get(data, "routing_decision")]

\* variant of the failure branch that drops the message of the envelope
ErrorEntryGeneric(error) ==
  [role |-> "assistant",
   content |-> <<"(!) Error: ", "Failed to get response.">>]

\* the template string of the failure branch; its first fragment stands
\* for the warning sign followed by "Error: "
ErrorEntry(error) ==
  [role |-> "assistant",
   content |-> <<"(!) Error: ">> \o JsOr(error, <<"Failed to get response.">>)]

CriticalEntry ==
  [role |-> "assistant",
   content |-> <<"Critical Error: Client failed to process request.">>]

\* api.sendSimpleChat posts to /api/chat, api.sendQuery to /api/query
EndpointOf(mode) == IF mode = "simple" THEN "/api/chat" ELSE "/api/query"

\* the handler is idle; the counters record what handleSend has done
IdleSend ==
  [pc |-> "idle", mode |-> "multi-agent", agentsEmpty |-> TRUE,
   endpoint |-> "none", rejected |-> {}, sends |-> 0, calls |-> 0,
   refreshes |-> 0, outcome |-> "none", events |-> <<>>]

\* the text box accepts typing unless it is disabled
InputEnabled == ~loading /\ backendOnline

TypeInput(text) ==
  /\ InputEnabled
  /\ text # input
  /\ input' = text
  /\ UNCHANGED <<messages, agents, loading, loadingAgents, backendOnline,
                 chatMode, rf, send, clicks, lastCycle, gw, mesh>>

\* the two mode buttons
SetChatMode(mode) ==
  /\ mode # chatMode
  /\ chatMode' = mode
  /\ UNCHANGED <<messages, agents, loading, loadingAgents, backendOnline,
                 input, rf, send, clicks, lastCycle, gw, mesh>>

\* variant of the prologue that issues the call before it appends
SendPrologueCallFirst == <<"call_issued", "user_entry">>

\* the statements of handleSend between the guard and the first await, in
\* program order: setMessages with the user entry, then the api call
SendPrologue == <<"user_entry", "call_issued">>

\* handleSend from the submit event to its first await.  One invocation is
\* followed at a time; rejected collects the texts for which the handler
\* returned at once.
handleSend ==
  /\ send.pc = "idle"
  /\ LET trimmed == Trim(input)
     IN IF trimmed = <<>>
          THEN /\ input \notin send.rejected
               /\ send' = [send EXCEPT !.rejected = @ \cup {input}]
               /\ UNCHANGED <<messages, input, loading>>
          ELSE /\ send.sends < MaxSends
               /\ messages' = Spread(messages, UserEntry(trimmed))
               /\ input' = <<>>
               /\ loading' = TRUE
               /\ send' = [send EXCEPT !.pc = "calling",
                                       !.mode = chatMode,
                                       !.agentsEmpty = (DOMAIN agents = {}),
                                       !.endpoint = EndpointOf(chatMode),
                                       !.sends = @ + 1,
                                       !.calls = @ + 1,
                                       !.outcome = "pending",
                                       !.events = SendPrologue]
  /\ UNCHANGED <<agents, loadingAgents, backendOnline, chatMode, rf, clicks,
                 lastCycle, gw, mesh>>

\* variant of the submit button that is enabled while offline
CanSubmitOffline == ~loading /\ Trim(input) # <<>>

\* the submit button is enabled; with the button disabled the form cannot
\* be submitted, by a click or by Enter in the text box
CanSubmit == ~loading /\ backendOnline /\ Trim(input) # <<>>

\* the form is submitted through the page
SubmitForm == CanSubmit /\ handleSend

\* variant of the try block that appends before it reads the data
AfterCallAppendFirst(mode, result) ==
  IF result.success
    THEN IF ReadThrows(result.data)
           THEN [thrown |-> TRUE,
                 entries |-> <<[role |-> "assistant", content |-> "undefined"]>>]
           ELSE [thrown |-> FALSE,
                 entries |-> <<IF mode = "simple"
                                 THEN SimpleEntry(result.data.obj)
                                 ELSE MultiAgentEntry(result.data.obj)>>]
    ELSE [thrown |-> FALSE, entries |-> <<ErrorEntry(result.error)>>]

\* variant of the try block that reads the mode button, not the closure
AfterCallCurrentMode(mode, result) ==
  IF result.success
    THEN IF ReadThrows(result.data)
           THEN [thrown |-> TRUE, entries |-> <<>>]
           ELSE [thrown |-> FALSE,
                 entries |-> <<IF chatMode = "simple"
                                 THEN SimpleEntry(result.data.obj)
                                 ELSE MultiAgentEntry(result.data.obj)>>]
    ELSE [thrown |-> FALSE, entries |-> <<ErrorEntry(result.error)>>]

\* the try block between the gateway call and refreshAgentData: the
\* entries it appends, and whether it raises an exception
AfterCall(mode, result) ==
  IF result.success
    THEN IF ReadThrows(result.data)
           THEN [thrown |-> TRUE, entries |-> <<>>]
           ELSE [thrown |-> FALSE,
                 entries |-> <<IF mode = "simple"
                                 THEN SimpleEntry(result.data.obj)
                                 ELSE MultiAgentEntry(result.data.obj)>>]
    ELSE [thrown |-> FALSE, entries |-> <<ErrorEntry(result.error)>>]

\* what the resumed handler does, in program order: the await returns,
\* then one setMessages per entry
ResumeEvents(n) == <<"call_settled">> \o [k \in 1..n |-> "assistant_entry"]

\* the gateway call of the send resolves and handleSend resumes: it appends
\* the assistant entry and starts refreshAgentData, or, on an exception,
\* runs the catch and finally blocks
handleSendResume(outcome) ==
  /\ send.pc = "calling"
  /\ LET result == ApiFetchResult(outcome)
         after == AfterCall(send.mode, result)
     IN IF after.thrown
          THEN /\ messages' = Spread(SpreadAll(messages, after.entries),
                                     CriticalEntry)
               /\ loading' = LoadingAfterFinally("exception")
               /\ send' = [send EXCEPT
                             !.pc = "idle", !.outcome = "exception",
                             !.events = @ \o ResumeEvents(Len(after.entries) + 1)]
               /\ UNCHANGED <<rf, loadingAgents>>
          ELSE /\ messages' = SpreadAll(messages, after.entries)
               /\ rf' = rf (+) SetToBag({StartedRefresh(TRUE)})
               /\ loadingAgents' = LoadingAfterStart(send.agentsEmpty)
               /\ send' = [send EXCEPT
                             !.pc = "refreshing",
                             !.refreshes = @ + 1,
                             !.outcome = IF result.success THEN "success"
                                                           ELSE "failure",
                             !.events = @ \o ResumeEvents(Len(after.entries))]
               /\ UNCHANGED loading
  /\ UNCHANGED <<agents, backendOnline, input, chatMode, clicks, lastCycle,
                 gw, mesh>>

\* what the backend can answer to /api/chat and /api/query: an object
\* holding the fields of both response shapes, or null
ChatBody ==
  JsonObject([response |-> "hello", cost_usd |-> "0.01",
              model_used |-> "gpt", agent_id |-> "coder",
              final_answer |-> "answer", total_cost |-> "0.03",
              agents_used |-> "researcher,coder",
              routing_decision |-> "smart"])

SendOutcomes ==
  {Response(200, ChatBody), Response(200, JsonNull),
   Response(500, Unparsable)}

SendStep == \E o \in SendOutcomes : handleSendResume(o)

\* ============================================ apiFetch, stage by stage
TIMEOUT_MS == 10000

\* granularity of the clock that runs beside a call
QuantumMs == 5000

HttpStatuses == {200, 201, 400, 404, 422, 429, 500, 502, 503, 504}

\* bodies of non-2xx responses
ErrorBodies ==
  {Unparsable, JsonNull, JsonObject([other |-> <<"x">>]),
   JsonObject([detail |-> <<"budget exhausted">>]),
   JsonObject([message |-> <<"bad request">>]),
   JsonObject([detail |-> <<"upstream: ", "Failed to fetch">>])}

\* bodies of 2xx responses
SuccessBodies == {ChatBody, JsonNull, Unparsable}

\* messages of the TypeError a browser raises when the connection fails
ConnectionErrors ==
  {<<"Failed to fetch">>,
   <<"NetworkError", " when attempting to fetch resource.">>,
   <<"Load failed">>}

NoEnvelope == [success |-> FALSE, error |-> <<>>]

\* no body has been read
NoBody == [kind |-> "none"]

\* the functions of the api object that wrap apiFetch
SendWrappers == {"sendQuery", "sendSimpleChat"}
BareWrappers == {"getAgentStatus", "getAgentCost"}
Wrappers == SendWrappers \cup BareWrappers

\* a notification shown by the toast library
Toast(kind, text) == [kind |-> kind, text |-> text]

\* toast.loading before the call; the identifier it returns is kept
WrapperPrologue(wrapper) ==
  CASE wrapper = "sendQuery" ->
         <<[kind |-> "loading", id |-> 1, text |-> <<"Processing query...">>]>>
    [] wrapper = "sendSimpleChat" ->
         <<[kind |-> "loading", id |-> 1, text |-> <<"Sending message...">>]>>
    [] OTHER -> <<>>

\* variant of the wrapper that announces success whatever the envelope
WrapperEpilogueAlwaysSuccess(wrapper, result) ==
  IF wrapper \in SendWrappers
    THEN <<[kind |-> "dismiss", id |-> 1],
           Toast("success", <<"Response received!">>)>>
    ELSE <<>>

\* after the await: toast.dismiss(toastId), then toast.success on success;
\* the bare wrappers return the promise of apiFetch
WrapperEpilogue(wrapper, result) ==
  IF wrapper \in SendWrappers
    THEN <<[kind |-> "dismiss", id |-> 1]>>
           \o (IF result.success
                 THEN <<Toast("success", <<"Response received!">>)>>
                 ELSE <<>>)
    ELSE <<>>

IdleGateway ==
  [pc |-> "idle", timer |-> "none", aborted |-> FALSE, elapsed |-> 0,
   status |-> 0, promise |-> "pending", value |-> NoEnvelope, calls |-> 0,
   body |-> NoBody, wrapper |-> "none", toasts |-> <<>>]

\* variant of the catch block that lets a parse error escape
CatchBlockRethrow(error) ==
  IF error.name = "SyntaxError"
    THEN [promise |-> "rejected", value |-> NoEnvelope, toast |-> <<>>]
    ELSE [promise |-> "fulfilled",
          value |-> FailureEnvelope(ClassifyError(error)),
          toast |-> <<Toast("error", ClassifyError(error))>>]

\* the catch block of apiFetch: the error notification is shown and the
\* promise is fulfilled with a failure envelope, both with the classified
\* message
CatchBlock(error) ==
  [promise |-> "fulfilled", value |-> FailureEnvelope(ClassifyError(error)),
   toast |-> <<Toast("error", ClassifyError(error))>>]

\* the return statement of the try block
ReturnData(data) ==
  [promise |-> "fulfilled", value |-> SuccessEnvelope(data), toast |-> <<>>]

\* apiFetch settles and the wrapper that awaited it runs to its return
Settled(g, s) ==
  [g EXCEPT !.pc = "settled", !.promise = s.promise, !.value = s.value,
            !.toasts = @ \o s.toast \o WrapperEpilogue(g.wrapper, s.value)]

\* a function of the api object is called: its prologue runs, then apiFetch
\* starts: the controller is created, the timer armed, fetch issued
ApiFetchStart(wrapper) ==
  /\ gw.pc \in {"idle", "settled"}
  /\ gw.calls < MaxGatewayCalls
  /\ gw' = [IdleGateway EXCEPT !.pc = "fetching", !.timer = "armed",
                               !.calls = gw.calls + 1,
                               !.wrapper = wrapper,
                               !.toasts = WrapperPrologue(wrapper)]
  /\ UNCHANGED appVars

\* the response headers arrive: fetch resolves and the timer is cleared;
\* the body is read next, by the error branch or by the success branch
FetchResolves(status) ==
  /\ gw.pc = "fetching"
  /\ gw' = [gw EXCEPT !.timer = "cleared", !.status = status,
                      !.pc = IF ResponseOk(status) THEN "body" ELSE "errorBody"]
  /\ UNCHANGED appVars

\* the connection fails: fetch rejects with a TypeError
FetchRejects(msg) ==
  /\ gw.pc = "fetching"
  /\ gw' = Settled([gw EXCEPT !.timer = "cleared"],
                   CatchBlock([name |-> "TypeError", message |-> msg]))
  /\ UNCHANGED appVars

\* the body of a non-2xx response has been read (or could not be parsed):
\* the message is chosen, thrown, and caught
ErrorBodyRead(body) ==
  /\ gw.pc = "errorBody"
  /\ gw' = Settled([gw EXCEPT !.body = body],
                   CatchBlock(ErrorOfResponse(gw.status, body)))
  /\ UNCHANGED appVars

\* the body of a 2xx response has been read
BodyRead(body) ==
  /\ gw.pc = "body"
  /\ gw' = Settled([gw EXCEPT !.body = body],
                   IF body.kind = "unparsable"
                     THEN CatchBlock(ErrorOfResponse(gw.status, body))
                     ELSE ReturnData(body))
  /\ UNCHANGED appVars

\* time passes while the call is unresolved.  When TIMEOUT_MS is reached
\* with the timer still armed its callback aborts the controller, fetch
\* rejects with an AbortError and the catch block runs.
Tick ==
  /\ gw.pc \in {"fetching", "errorBody", "body"}
  /\ gw.elapsed < TIMEOUT_MS
  /\ LET now == gw.elapsed + QuantumMs
     IN IF now >= TIMEOUT_MS /\ gw.timer = "armed"
          THEN gw' = Settled([gw EXCEPT !.elapsed = now, !.aborted = TRUE,
                                        !.timer = "fired"],
                             CatchBlock([name |-> "AbortError",
                                         message |-> <<"The user aborted a request.">>]))
          ELSE gw' = [gw EXCEPT !.elapsed = now]
  /\ UNCHANGED appVars

\* ==================================================== CircuitMesh3D
\* what the backend can answer to the circuit call of the mesh view
MeshBodies ==
  {JsonObject([status |-> "closed", failure_count |-> "0"]),
   JsonObject([status |-> "open", failure_count |-> "3"]),
   JsonObject([status |-> "half_open", failure_count |-> "1"])}

MeshOutcomes ==
  {Response(200, b) : b \in MeshBodies} \cup {NetworkError(<<"Failed to fetch">>)}

\* value || 0
OrZero(value) == IF value \in {"undefined", "0"} THEN "0" ELSE value

\* the object built for one agent from what getAgentStatus resolved to;
\* the properties are read on that value, which is the envelope
MeshEntry(id, status) ==
  [id |-> id,
   status |-> Get(status, "status"),
   failureCount |-> OrZero(Get(status, "failure_count"))]

\* the array Promise.all resolves to: one object per configured agent
MeshResults(outcomes) ==
  [k \in 1..Len(AGENT_IDS) |->
     MeshEntry(AGENT_IDS[k], ApiFetchResult(outcomes[k]))]

\* the circuit data received last for each agent, for the agents whose call
\* of this cycle succeeded with an object
MeshKnown(known, outcomes) ==
  [id \in DOMAIN known
         \cup {AGENT_IDS[k] : k \in {j \in 1..Len(AGENT_IDS) :
                                      /\ ApiFetchResult(outcomes[j]).success
                                      /\ outcomes[j].body.kind = "object"}} |->
     LET k == CHOOSE j \in 1..Len(AGENT_IDS) : AGENT_IDS[j] = id
         res == ApiFetchResult(outcomes[k])
     IN IF res.success /\ res.data.kind = "object" THEN res.data.obj
                                                   ELSE known[id]]

\* the view after its mount effect: the list is empty and the first
\* fetchStates is under way
MeshMounted ==
  [pc |-> "polling", agents |-> <<>>, polls |-> 1, last |-> <<>>,
   known |-> EmptyMap]

\* the interval of 2000 ms fires: fetchStates issues the three calls
MeshInterval ==
  /\ mesh.pc = "idle"
  /\ mesh.polls < MaxPolls
  /\ mesh' = [mesh EXCEPT !.pc = "polling", !.polls = @ + 1]
  /\ UNCHANGED panelVars

\* the three calls have resolved: Promise.all resolves and setAgents
\* publishes the array in place of the list
fetchStates(outcomes) ==
  /\ mesh.pc = "polling"
  /\ mesh' = [mesh EXCEPT
               !.pc = "idle",
               !.agents = MeshResults(outcomes),
               !.last = [k \in 1..Len(AGENT_IDS) |-> ApiFetchResult(outcomes[k])],
               !.known = MeshKnown(mesh.known, outcomes)]
  /\ UNCHANGED panelVars

\* the state after the first render and its mount effect: the startup
\* refresh is in flight
Init ==
  /\ messages = <<>>
  /\ agents = EmptyMap
  /\ loading = FALSE
  /\ loadingAgents = TRUE
  /\ backendOnline = TRUE
  /\ input = <<>>
  /\ chatMode = "multi-agent"
  /\ rf = SetToBag({StartedRefresh(FALSE)})
  /\ send = IdleSend
  /\ clicks = 0
  /\ lastCycle = NoCycle
  /\ gw = IdleGateway
  /\ mesh = MeshMounted

\* the client as a whole: typing, mode buttons, sends and their refreshes
Next ==
  \/ \E text \in Texts : TypeInput(text)
  \/ \E mode \in {"multi-agent", "simple"} : SetChatMode(mode)
  \/ handleSend
  \/ SendStep
  \/ BasicRefreshStep

Spec == Init /\ [][Next]_vars

\* the Status Aggregator alone: startup and manual refreshes
NextRefresh == RefreshStep \/ ManualRefresh

SpecRefresh == Init /\ [][NextRefresh]_vars

\* the startup refresh and the refreshes that follow sends, which overlap
\* when the user sends before the startup refresh has ended
NextOverlap ==
  \/ TypeInput(<<" ", "a", " ">>)
  \/ handleSend
  \/ handleSendResume(Response(200, ChatBody))
  \/ OverlapRefreshStep

SpecOverlap == Init /\ [][NextOverlap]_vars

\* sends and their refreshes when every gateway call resolves: a call that
\* is outstanding is answered, so the step that resumes the handler and the
\* step that settles a pair are taken when they stay possible
NextLive ==
  \/ TypeInput(<<" ", "a", " ">>)
  \/ handleSend
  \/ SendStep
  \/ BasicRefreshStep

SpecLive ==
  /\ Init
  /\ [][NextLive]_vars
  /\ WF_vars(SendStep)
  /\ WF_vars(BasicRefreshStep)

\* the polling loop of the mesh view
NextMesh ==
  \/ MeshInterval
  \/ \E o1 \in MeshOutcomes, o2 \in MeshOutcomes, o3 \in MeshOutcomes :
       fetchStates(<<o1, o2, o3>>)

SpecMesh == Init /\ [][NextMesh]_vars

\* the answers considered for the sends made through the page: data, or
\* the null that makes the handler throw
UiSendOutcomes == {Response(200, ChatBody), Response(200, JsonNull)}

UiSendStep == \E o \in UiSendOutcomes : handleSendResume(o)

\* the page as the user drives it: typing, submitting the form, and the
\* Refresh Status button and Retry link
NextUI ==
  \/ TypeInput(<<" ", "a", " ">>)
  \/ SubmitForm
  \/ UiSendStep
  \/ BasicRefreshStep
  \/ ManualRefresh

SpecUI == Init /\ [][NextUI]_vars

\* one gateway call after another, each traced through its stages
NextGateway ==
  \/ \E wrapper \in Wrappers : ApiFetchStart(wrapper)
  \/ \E status \in HttpStatuses : FetchResolves(status)
  \/ \E msg \in ConnectionErrors : FetchRejects(msg)
  \/ \E body \in ErrorBodies : ErrorBodyRead(body)
  \/ \E body \in SuccessBodies : BodyRead(body)
  \/ Tick

SpecGateway == Init /\ [][NextGateway]_vars

\* ================================================================ claims
\* the entry of an agent in a snapshot map, present or absent
EntryOf(m, id) == IF id \in DOMAIN m THEN <<m[id]>> ELSE <<>>

\* a step in which an invocation of refreshAgentData runs to its end
CycleCompletes == BagCardinality(rf') < BagCardinality(rf)

\* agents of the cycle completed last, by what their pair of calls returned
PairsOf(c, classes) == {id \in DOMAIN c.pairs : c.pairs[id] \in classes}

\* the entry of id is the one the completed cycle built
Updated(c, id) ==
  /\ id \in DOMAIN c.fresh
  /\ EntryOf(agents', id) = <<c.fresh[id]>>

Kept(id) == EntryOf(agents', id) = EntryOf(agents, id)

\* C1 as stated: in a refresh cycle a snapshot is written only for agents
\* whose two calls returned success envelopes; an agent with exactly one
\* failed call keeps its entry, every agent whose two calls succeeded is
\* updated, and the verdict is true.
C1_AsClaimed ==
  [][CycleCompletes =>
       LET c == lastCycle'
       IN /\ \A id \in DOMAIN c.fresh : c.pairs[id] \in {"unreadable", "complete"}
          /\ \A id \in PairsOf(c, {"partial"}) : Kept(id)
          /\ \A id \in PairsOf(c, {"unreadable", "complete"}) : Updated(c, id)
          /\ (PairsOf(c, {"partial"}) # {}
                /\ PairsOf(c, {"unreadable", "complete"}) # {}) => backendOnline'
    ]_vars

\* C1 amended: a snapshot is written only for agents whose two calls
\* returned success envelopes; an agent with exactly one failed call keeps
\* its entry; every agent whose two calls succeeded with non-null data is
\* updated, and when there is such an agent the verdict is true.
C1_PartialPairDiscarded ==
  [][CycleCompletes =>
       LET c == lastCycle'
       IN /\ \A id \in DOMAIN c.fresh : c.pairs[id] \in {"unreadable", "complete"}
          /\ \A id \in PairsOf(c, {"partial"}) : Kept(id)
          /\ \A id \in PairsOf(c, {"complete"}) : Updated(c, id)
          /\ (PairsOf(c, {"partial"}) # {}
                /\ PairsOf(c, {"complete"}) # {}) => backendOnline'
    ]_vars

\* the scenario of C1 has happened: researcher had one failed call and kept
\* an earlier entry, coordinator and coder were updated, the verdict is true
C1_Witness ==
  /\ lastCycle # NoCycle
  /\ lastCycle.pairs["researcher"] = "partial"
  /\ lastCycle.pairs["coordinator"] = "complete"
  /\ lastCycle.pairs["coder"] = "complete"
  /\ "researcher" \in DOMAIN agents
  /\ agents["coordinator"] = lastCycle.fresh["coordinator"]
  /\ agents["coder"] = lastCycle.fresh["coder"]
  /\ agents["researcher"].circuitStatus # agents["coder"].circuitStatus
  /\ backendOnline

\* C2: a cycle in which K agents fully succeed (both envelopes successes
\* that carry data) replaces exactly the entries of those K agents by the
\* values of this cycle and leaves every other entry, present or absent, as
\* it was; no entry is deleted.
C2_OverlayFrame ==
  [][CycleCompletes =>
       LET c == lastCycle'
           K == PairsOf(c, {"complete"})
       IN /\ K \subseteq DOMAIN c.fresh
          /\ DOMAIN agents \subseteq DOMAIN agents'
          /\ DOMAIN agents' = DOMAIN agents \cup K
          /\ \A id \in DOMAIN agents' :
               agents'[id] = IF id \in K THEN c.fresh[id] ELSE agents[id]
          /\ \A id \in K : agents'[id].name = id
    ]_vars

\* a cycle in which one agent of three succeeded has completed over a map
\* that held all three agents
C2_Witness ==
  /\ lastCycle # NoCycle
  /\ Cardinality(PairsOf(lastCycle, {"complete"})) = 1
  /\ DOMAIN agents = AgentIdSet
  /\ \E id \in AgentIdSet \ DOMAIN lastCycle.fresh :
       \E k \in DOMAIN lastCycle.fresh :
         agents[id].circuitStatus # agents[k].circuitStatus

\* C3 as stated: the verdict written by a completed cycle is true iff some
\* agent had both of its calls succeed in that cycle.
C3_AsClaimed ==
  lastCycle # NoCycle =>
    (backendOnline <=> PairsOf(lastCycle, {"unreadable", "complete"}) # {})

\* C3 amended: the verdict written by a completed cycle is true iff some
\* agent had both of its calls succeed with non-null data in that cycle,
\* whatever the verdict and the map were before.
C3_VerdictIffSuccess ==
  lastCycle # NoCycle =>
    (backendOnline <=> PairsOf(lastCycle, {"complete"}) # {})

\* a cycle in which every agent failed has set the verdict to false over a
\* map that earlier cycles had filled
C3_Witness ==
  /\ lastCycle # NoCycle
  /\ PairsOf(lastCycle, {"unreadable", "complete"}) = {}
  /\ ~backendOnline
  /\ DOMAIN agents # {}

\* ------------------------------------------------------------- gateway
IsEnvelope(v) ==
  \/ v.success = TRUE /\ DOMAIN v = {"success", "data"}
  \/ v.success = FALSE /\ DOMAIN v = {"success", "error"} /\ v.error # <<>>

\* C4: whatever the underlying fetch does, the promise of apiFetch is never
\* rejected, and when it settles it is fulfilled with a success envelope or
\* a failure envelope.
C4_AlwaysEnvelope ==
  /\ gw.promise # "rejected"
  /\ gw.pc = "settled" => gw.promise = "fulfilled" /\ IsEnvelope(gw.value)

\* a 2xx response whose body could not be parsed has settled as a failure
C4_Witness ==
  /\ gw.pc = "settled"
  /\ ResponseOk(gw.status)
  /\ gw.promise = "fulfilled"
  /\ gw.value = FailureEnvelope(JsonSyntaxMessage)

\* C5 as stated: a call still unresolved when TIMEOUT_MS has elapsed has
\* been aborted and has resolved to the failure envelope that carries the
\* timeout message, at whatever stage it was.
C5_AsClaimed ==
  gw.elapsed >= TIMEOUT_MS =>
    /\ gw.aborted
    /\ gw.pc = "settled"
    /\ gw.value = FailureEnvelope(TimeoutMessage)

\* ---------------------------------------------------------- dispatcher
IsBlank(text) == \A k \in 1..Len(text) : text[k] = " "

\* a step in which handleSend is invoked
SendInvoked == send'.sends > send.sends \/ send'.rejected # send.rejected

Last(seq) == seq[Len(seq)]

\* C6: a send whose text is empty or blank leaves the timeline as it is,
\* issues no gateway call, does not set the loading flag and starts no
\* refresh.
C6_BlankSendIsNoop ==
  [][(SendInvoked /\ IsBlank(input)) =>
       /\ messages' = messages
       /\ send'.calls = send.calls
       /\ send'.sends = send.sends
       /\ send'.pc = "idle"
       /\ loading' = loading
       /\ rf' = rf
       /\ send'.refreshes = send.refreshes
    ]_vars

\* handleSend has returned at once for a text made of a space
C6_Witness ==
  /\ <<" ">> \in send.rejected
  /\ send.sends = 0
  /\ messages = <<>>

SimpleFields == {"role", "content", "cost", "model_used", "agent_id"}
MultiAgentFields == {"role", "content", "cost", "agents_used", "routing_decision"}

\* C7: a send issues one gateway call, to /api/chat in simple mode and to
\* /api/query in multi-agent mode, as the mode was at submission; when the
\* call succeeds with data one assistant entry is appended, with the fields
\* of the shape of that endpoint only, whatever the mode button shows then.
C7_OneCallModeShape ==
  [][/\ (SendInvoked /\ ~IsBlank(input)) =>
          /\ send'.calls = send.calls + 1
          /\ send'.endpoint = IF chatMode = "simple" THEN "/api/chat"
                                                     ELSE "/api/query"
     /\ ~(SendInvoked /\ ~IsBlank(input)) => send'.calls = send.calls
     /\ handleSendResume(Response(200, ChatBody)) =>
          /\ Len(messages') = Len(messages) + 1
          /\ SubSeq(messages', 1, Len(messages)) = messages
          /\ Last(messages').role = "assistant"
          /\ IF send.endpoint = "/api/chat"
               THEN /\ DOMAIN Last(messages') = SimpleFields
                    /\ Last(messages').content = "hello"
                    /\ Last(messages').cost = "0.01"
                    /\ Last(messages').model_used = "gpt"
                    /\ Last(messages').agent_id = "coder"
               ELSE /\ DOMAIN Last(messages') = MultiAgentFields
                    /\ Last(messages').content = "answer"
                    /\ Last(messages').cost = "0.03"
                    /\ Last(messages').agents_used = "researcher,coder"
                    /\ Last(messages').routing_decision = "smart"
    ]_vars

\* a simple-mode send has succeeded and appended its entry while the mode
\* button shows multi-agent
C7_Witness ==
  /\ send.pc = "refreshing"
  /\ send.outcome = "success"
  /\ send.endpoint = "/api/chat"
  /\ chatMode = "multi-agent"
  /\ send.calls = 1
  /\ DOMAIN Last(messages) = SimpleFields

\* C8 as stated: every send with non-empty text, whatever its outcome, is
\* followed by one invocation of refreshAgentData started after the call
\* has settled.
C8_AsClaimed ==
  /\ send.pc = "calling" => send.refreshes = send.sends - 1
  /\ send.pc \in {"refreshing", "idle"} => send.refreshes = send.sends

\* C9: when the call of a send resolves to a failure envelope, one
\* assistant entry is appended; its content is the error prefix followed by
\* the message of the envelope, and it has no other field.
C9_FailureEntry ==
  [][\A o \in SendOutcomes :
       (handleSendResume(o) /\ ~ApiFetchResult(o).success) =>
         /\ messages' = Append(messages,
                               [role |-> "assistant",
                                content |-> <<"(!) Error: ">>
                                              \o ApiFetchResult(o).error])
         /\ ApiFetchResult(o).error = ServerErrorMessage
    ]_vars

\* a send has failed and the timeline ends with the entry of that failure
C9_Witness ==
  /\ send.outcome = "failure"
  /\ messages # <<>>
  /\ Last(messages) = [role |-> "assistant",
                       content |-> <<"(!) Error: ",
                                     "Server error. Please try again later.">>]

\* C10: when the call of a send resolves to a success envelope whose data
\* is null, the exception is caught: the timeline grows by the one generic
\* assistant entry, the handler ends and the loading flag is false.
C10_ExceptionIsolated ==
  [][handleSendResume(Response(200, JsonNull)) =>
       /\ messages' =
            Append(messages,
                   [role |-> "assistant",
                    content |-> <<"Critical Error: Client failed to process request.">>])
       /\ loading' = FALSE
       /\ send'.pc = "idle"
    ]_vars

\* a send has ended in the caught exception
C10_Witness ==
  /\ send.outcome = "exception"
  /\ send.pc = "idle"
  /\ ~loading
  /\ Len(messages) >= 2
  /\ Last(messages).role = "assistant"
  /\ messages[Len(messages) - 1].role = "user"

\* ------------------------------------------------------ order of a send
FullSendEvents == <<"user_entry", "call_issued", "call_settled", "assistant_entry">>

\* C11: in one send the user entry is appended before the gateway call is
\* issued, no assistant entry is appended while the call is outstanding,
\* one assistant entry is appended once it has settled, and the number of
\* calls equals the number of sends at all times: a failure envelope is
\* followed by no further call.
C11_FixedOrder ==
  [][/\ (SendInvoked /\ ~IsBlank(input)) =>
          /\ send'.events = <<"user_entry", "call_issued">>
          /\ Len(messages') = Len(messages) + 1
          /\ Last(messages').role = "user"
          /\ send'.pc = "calling"
     /\ send.pc = "calling" =>
          /\ Last(messages).role = "user"
          /\ send.events = <<"user_entry", "call_issued">>
     /\ (send.pc = "calling" /\ send'.pc # "calling") =>
          /\ send'.events = FullSendEvents
          /\ Len(messages') = Len(messages) + 1
          /\ Last(messages').role = "assistant"
     /\ (Len(messages') > Len(messages) /\ Last(messages').role = "assistant") =>
          (send.pc = "calling" /\ send'.pc # "calling")
     /\ send'.calls = send'.sends
     /\ ~SendInvoked => send'.calls = send.calls
    ]_vars

\* a send whose call resolved to a failure envelope has run to its end,
\* refresh included, with the one call it issued
C11_Witness ==
  /\ send.outcome = "failure"
  /\ send.pc = "idle"
  /\ ~loading
  /\ send.sends = 1
  /\ send.calls = 1
  /\ send.events = FullSendEvents
  /\ Len(messages) = 2

\* ---------------------------------------------------- shape of a cycle
\* C12 as stated: in every invocation of refreshAgentData the pair of every
\* configured agent has been issued before any pair has settled, so that
\* the pairs of all agents not yet settled are outstanding together.
C12_AsClaimed ==
  \A inst \in InFlight :
    /\ IssuedPairs(inst) = AgentIdSet
    /\ SettledPairs(inst) = {} => Cardinality(IssuedPairs(inst)) > 1

\* C13: the map and the verdict change only in the step in which an
\* invocation runs to its end; that step comes after the pairs of all
\* configured agents have settled, removes that invocation alone, and
\* publishes every snapshot the cycle gathered at once.  While a cycle is
\* under way what it has gathered is not in the map.
C13_SingleWriteAtEnd ==
  [][/\ (agents' # agents \/ backendOnline' # backendOnline) => CycleCompletes
     /\ CycleCompletes =>
          /\ DOMAIN lastCycle'.pairs = AgentIdSet
          /\ \E inst \in InFlight :
               /\ SettledPairs(inst) = AgentIdSet \ {AGENT_IDS[Len(AGENT_IDS)]}
               /\ DOMAIN inst.pairs = SettledPairs(inst)
               /\ rf' = rf (-) SetToBag({inst})
               /\ DOMAIN inst.newAgentData \subseteq DOMAIN lastCycle'.fresh
          /\ \A id \in DOMAIN lastCycle'.fresh :
               agents'[id] = lastCycle'.fresh[id]
     /\ ~CycleCompletes =>
          /\ lastCycle' = lastCycle
          /\ \A inst \in BagToSet(rf') : DOMAIN inst.pairs = SettledPairs(inst)
    ]_vars

\* a cycle has published two snapshots at once, and a later cycle holds a
\* different snapshot of one of these agents that is not in the map yet
C13_Witness ==
  /\ lastCycle # NoCycle
  /\ Cardinality(DOMAIN lastCycle.fresh) = 2
  /\ \A id \in DOMAIN lastCycle.fresh : agents[id] = lastCycle.fresh[id]
  /\ \E inst \in InFlight :
       \E id \in DOMAIN inst.newAgentData \cap DOMAIN agents :
         inst.newAgentData[id] # agents[id]

\* ------------------------------------------------- overlapping refreshes
\* C14: refreshes that overlap do not hinder one another: a refresh starts
\* whatever is in flight, every invocation in flight can take its next
\* step, and a step removes at most the invocation that ends.  Whichever
\* invocation ends, and whenever it started, each agent it gathered gets
\* the value of that invocation and every other agent keeps the entry an
\* earlier-applied refresh wrote.
C14_LastAppliedWins ==
  [][/\ \A inst \in InFlight :
          ENABLED RefreshPairSettled(inst, NetworkError(<<"Failed to fetch">>),
                                     Response(404, Unparsable))
     /\ (send.pc = "calling" /\ send'.pc = "refreshing") =>
          rf' = rf (+) SetToBag({StartedRefresh(TRUE)})
     /\ \A inst \in InFlight : CopiesIn(inst, rf') >= CopiesIn(inst, rf) - 1
     /\ BagCardinality(rf') >= BagCardinality(rf) - 1
     /\ CycleCompletes =>
          \A id \in AgentIdSet :
            EntryOf(agents', id) =
              IF id \in PairsOf(lastCycle', {"complete"})
                THEN <<lastCycle'.fresh[id]>>
                ELSE EntryOf(agents, id)
    ]_vars

\* the refresh that followed a send was applied first and wrote closed for
\* coordinator and researcher; the startup refresh, started before it, is
\* still in flight, has read open for coordinator and nothing for
\* researcher, and waits for its last pair
C14_Witness ==
  /\ send.sends = 1
  /\ send.refreshes = 1
  /\ send.pc = "idle"
  /\ lastCycle # NoCycle
  /\ {"coordinator", "researcher"} \subseteq DOMAIN lastCycle.fresh
  /\ agents["coordinator"].circuitStatus = "closed"
  /\ agents["researcher"].circuitStatus = "closed"
  /\ \E inst \in InFlight :
       /\ ~inst.awaited
       /\ LoopDone(inst)
       /\ DOMAIN inst.newAgentData = {"coordinator"}
       /\ inst.newAgentData["coordinator"].circuitStatus = "open"

\* ------------------------------------------- messages of the gateway
\* a response with a non-2xx status has been read and the call has settled
ErrorResponseSettled ==
  gw.pc = "settled" /\ gw.body # NoBody /\ ~ResponseOk(gw.status)

\* the text of the detail field, or else of the message field, of a body
ErrorTextOf(body) ==
  IF body.kind = "object"
    THEN LET detail == IF "detail" \in DOMAIN body.obj
                         THEN body.obj.detail ELSE <<>>
             message == IF "message" \in DOMAIN body.obj
                          THEN body.obj.message ELSE <<>>
         IN IF detail # <<>> THEN detail ELSE message
    ELSE <<>>

\* the message ends with the text
Carries(error, text) ==
  \E k \in 0..Len(error) : SubSeq(error, k + 1, Len(error)) = text

\* C15 as stated: when the body of a non-2xx response has a detail or a
\* message field, the error of the failure envelope carries that text, and
\* the wording kept for 404, 429 and 5xx appears only when the body has no
\* such field or cannot be parsed.
C15_AsClaimed ==
  ErrorResponseSettled =>
    /\ ErrorTextOf(gw.body) # <<>> =>
         /\ ~gw.value.success
         /\ Carries(gw.value.error, ErrorTextOf(gw.body))
    /\ gw.value.error \in {NotFoundMessage, RateLimitMessage, ServerErrorMessage}
         => ErrorTextOf(gw.body) = <<>>

IsTerminalToast(t) == t.kind \in {"error", "success"}
IsLoadingToast(t) == t.kind = "loading"
IsDismissal(t) == t.kind = "dismiss"

\* C16: when a call made through sendQuery or sendSimpleChat has returned,
\* the loading notification created first has been dismissed, once, and one
\* terminal notification has been shown: an error with the message of the
\* envelope for a failure, a success for a success.  A call made through
\* getAgentStatus or getAgentCost has shown that error notification for a
\* failure and nothing for a success.
C16_Notifications ==
  gw.pc = "settled" =>
    LET t == gw.toasts
        terminal == SelectSeq(t, IsTerminalToast)
        dismissals == SelectSeq(t, IsDismissal)
    IN /\ Len(terminal) = 1 \/ (gw.wrapper \in BareWrappers /\ gw.value.success)
       /\ gw.value.success =>
            terminal = IF gw.wrapper \in SendWrappers
                         THEN <<[kind |-> "success",
                                 text |-> <<"Response received!">>]>>
                         ELSE <<>>
       /\ ~gw.value.success =>
            terminal = <<[kind |-> "error", text |-> gw.value.error]>>
       /\ IF gw.wrapper \in SendWrappers
            THEN /\ IsLoadingToast(t[1])
                 /\ Len(SelectSeq(t, IsLoadingToast)) = 1
                 /\ dismissals = <<[kind |-> "dismiss", id |-> t[1].id]>>
            ELSE /\ SelectSeq(t, IsLoadingToast) = <<>>
                 /\ dismissals = <<>>
                 /\ t = terminal

\* sendQuery has returned a failure envelope after a 429 response: loading,
\* error, dismissal
C16_Witness ==
  /\ gw.pc = "settled"
  /\ gw.wrapper = "sendQuery"
  /\ gw.status = 429
  /\ ~gw.value.success
  /\ Len(gw.toasts) = 3
  /\ gw.toasts[2] = [kind |-> "error", text |-> RateLimitMessage]
  /\ gw.toasts[3].kind = "dismiss"

\* C19 as stated: a non-2xx response gives a failure envelope; when no
\* detail or message can be extracted its error is the server-error message
\* for every status from 500 to 599, the not-found message for 404 and the
\* rate-limit message for 429; for every other status the error has the
\* form "Error: " followed by a message.
C19_AsClaimed ==
  ErrorResponseSettled =>
    /\ ~gw.value.success
    /\ ErrorTextOf(gw.body) = <<>> =>
         gw.value.error =
           CASE gw.status = 404 -> NotFoundMessage
             [] gw.status = 429 -> RateLimitMessage
             [] gw.status >= 500 /\ gw.status <= 599 -> ServerErrorMessage
             [] OTHER -> <<"Error: ", "An unexpected error occurred">>
    /\ (gw.status \notin {404, 429} /\ ~(gw.status >= 500 /\ gw.status <= 599))
         => Head(gw.value.error) = "Error: "

\* C20 as stated: the unreachable message is given only when fetch was
\* rejected because the connection failed, the timeout message only when
\* the timer aborted the call, and a non-2xx response that was read never
\* gives either of them.
C20_AsClaimed ==
  (gw.pc = "settled" /\ ~gw.value.success) =>
    /\ gw.value.error = UnreachableMessage =>
         (gw.body = NoBody /\ gw.status = 0 /\ ~gw.aborted)
    /\ gw.value.error = TimeoutMessage => gw.aborted
    /\ ErrorResponseSettled =>
         gw.value.error \notin {UnreachableMessage, TimeoutMessage}

\* ------------------------------------------------------------ invariants
\* C17: whatever step is taken, the timeline before it is a prefix of the
\* timeline after it: entries are added at the end, and none is removed,
\* moved or changed.
C17_AppendOnly ==
  [][/\ Len(messages') >= Len(messages)
     /\ SubSeq(messages', 1, Len(messages)) = messages
    ]_vars

\* two sends have run to their end and left four entries
C17_Witness ==
  /\ send.sends = 2
  /\ send.pc = "idle"
  /\ Len(messages) = 4
  /\ messages[1].role = "user"
  /\ messages[2].role = "assistant"
  /\ messages[3].role = "user"
  /\ messages[4].role = "assistant"
  /\ messages[2] # messages[4]

\* C18: the keys of the snapshot map, and of what every invocation has
\* gathered, are configured agent identifiers, whatever the responses say.
C18_ConfiguredKeysOnly ==
  /\ DOMAIN agents \subseteq AgentIdSet
  /\ \A inst \in InFlight : DOMAIN inst.newAgentData \subseteq AgentIdSet
  /\ \A id \in DOMAIN agents : agents[id].name = id

\* the map holds the three agents, one of them read from a response that
\* names an agent that is not configured
C18_Witness ==
  /\ DOMAIN agents = AgentIdSet
  /\ agents["coder"].circuitStatus = "open"
  /\ agents["coordinator"].circuitStatus = "closed"

\* ------------------------------------------------------ life of a send
\* an invocation of refreshAgentData that handleSend awaits is in flight
AwaitedInFlight(bag) == \E inst \in BagToSet(bag) : inst.awaited

\* C21: a send with non-empty text sets the loading flag and leaves idle;
\* the flag is true as long as the handler has not ended; the handler
\* goes from its call either to the refresh it awaits or, on an exception,
\* to its end; the flag falls in the step in which the handler ends, when
\* no refresh it awaits is left.  When every call resolves, a send that has
\* started returns to idle with the flag false.
C21_SendReturnsToIdle ==
  /\ [][/\ (SendInvoked /\ ~IsBlank(input)) =>
             (~loading /\ loading' /\ send.pc = "idle" /\ send'.pc = "calling")
        /\ (send.pc # "idle") => loading
        /\ (send.pc = "idle") => ~loading
        /\ (send.pc = "calling" /\ send'.pc # "calling") =>
             \/ send'.pc = "refreshing" /\ loading' /\ AwaitedInFlight(rf')
                  /\ send'.outcome \in {"success", "failure"}
             \/ send'.pc = "idle" /\ ~loading' /\ send'.outcome = "exception"
        /\ (send.pc = "refreshing" /\ send'.pc # "refreshing") =>
             (send'.pc = "idle" /\ ~loading' /\ CycleCompletes
                /\ ~AwaitedInFlight(rf'))
        /\ (loading /\ ~loading') =>
             (send'.pc = "idle" /\ ~AwaitedInFlight(rf'))
       ]_vars
  /\ (send.pc # "idle") ~> (send.pc = "idle" /\ ~loading)

\* the second send has succeeded and waits, loading, for the refresh that
\* follows it, after a first send that ended in the caught exception
C21_Witness ==
  /\ send.sends = 2
  /\ send.pc = "refreshing"
  /\ send.outcome = "success"
  /\ loading
  /\ AwaitedInFlight(rf)
  /\ Len(messages) = 4
  /\ messages[2] = CriticalEntry

\* ------------------------------------------------------------ mesh view
\* a polling cycle of the mesh view has published its array
MeshPublished == mesh.pc = "idle" /\ Len(mesh.agents) = Len(AGENT_IDS)

\* C22 as stated: after a polling cycle, an agent whose circuit call failed
\* in that cycle and whose circuit data had been received before is listed
\* with the status and the failure count received last.
C22_AsClaimed ==
  MeshPublished =>
    \A k \in 1..Len(AGENT_IDS) :
      (~mesh.last[k].success /\ AGENT_IDS[k] \in DOMAIN mesh.known) =>
        /\ mesh.agents[k].id = AGENT_IDS[k]
        /\ mesh.agents[k].status = mesh.known[AGENT_IDS[k]].status
        /\ mesh.agents[k].failureCount = mesh.known[AGENT_IDS[k]].failure_count

\* C23 as stated: after a polling cycle, an agent whose circuit call
\* resolved to a success envelope is listed with the status and the failure
\* count of the data of that envelope.
C23_AsClaimed ==
  MeshPublished =>
    \A k \in 1..Len(AGENT_IDS) :
      mesh.last[k].success =>
        /\ mesh.agents[k].id = AGENT_IDS[k]
        /\ mesh.agents[k].status = mesh.last[k].data.obj.status
        /\ mesh.agents[k].failureCount = mesh.last[k].data.obj.failure_count

\* ------------------------------------------------------ gating of sends
\* the invocation that runs to its end in this step
EndingRefresh(inst) ==
  /\ BagIn(inst, rf)
  /\ LoopDone(inst)
  /\ rf' = rf (-) SetToBag({inst})

\* no user entry is followed by a user entry
Alternates(timeline) ==
  \A k \in 1..(Len(timeline) - 1) :
    timeline[k].role = "user" => timeline[k + 1].role = "assistant"

\* what C24 says of the text box, the button and the sends
GatedSends ==
  /\ SendInvoked => (~loading /\ backendOnline /\ send.pc = "idle")
  /\ (loading \/ ~backendOnline) =>
       (~InputEnabled /\ ~CanSubmit /\ ~ENABLED SubmitForm)
  /\ ~loading <=> send.pc = "idle"
  /\ Alternates(messages')

UnparsablePairs ==
  {<<Response(st, Unparsable), co>> : st \in {200, 201}, co \in CostOutcomes}
    \cup {<<so, Response(st, Unparsable)>> : st \in {200, 201}, so \in StatusOutcomes}

\* C25: a call settles with a success envelope only after a 2xx response
\* whose body was parsed, and the envelope holds that body; a 2xx response
\* whose body cannot be parsed settles as a failure envelope with the
\* message of the parse error and one error notification; in a refresh the
\* pair of such a call has a failed call: the agent gets no snapshot and
\* is not counted.
C25_ParseFailureIsFailure ==
  /\ (gw.pc = "settled" /\ gw.value.success) =>
       /\ ResponseOk(gw.status)
       /\ gw.body.kind \in {"object", "null"}
       /\ gw.value = [success |-> TRUE, data |-> gw.body]
  /\ (gw.pc = "settled" /\ ResponseOk(gw.status) /\ gw.body = Unparsable) =>
       /\ gw.value = [success |-> FALSE, error |-> JsonSyntaxMessage]
       /\ SelectSeq(gw.toasts, IsTerminalToast)
            = <<[kind |-> "error", text |-> JsonSyntaxMessage]>>
  /\ \A pair \in UnparsablePairs, id \in AgentIdSet :
       LET statusRes == ApiFetchResult(pair[1])
           costRes == ApiFetchResult(pair[2])
       IN /\ ~(statusRes.success /\ costRes.success)
          /\ PairClass(statusRes, costRes) \in {"partial", "none"}
          /\ ProcessPair(id, statusRes, costRes, EmptyMap, 0)
               = [data |-> EmptyMap, count |-> 0]

\* getAgentCost got a 200 response that is not JSON and has returned a
\* failure envelope after its one error notification
C25_Witness ==
  /\ gw.pc = "settled"
  /\ gw.wrapper = "getAgentCost"
  /\ gw.status = 200
  /\ gw.body = Unparsable
  /\ ~gw.value.success
  /\ gw.toasts = <<[kind |-> "error", text |-> JsonSyntaxMessage]>>

====
